---- MODULE Spec2Model ----
(***************************************************************************)
(* Model of python-sidecar/main.py: the persistent background-removal     *)
(* worker.  main() reads newline-delimited JSON commands from stdin and   *)
(* answers on stdout; process_image() runs the pipeline                   *)
(*   decode -> preprocess -> size limit -> mask -> remove -> trim ->      *)
(*   encode                                                               *)
(* printing progress events at its checkpoints.                           *)
(***************************************************************************)
EXTENDS Integers, Sequences, FiniteSets, TLC

(***************************************************************************)
(* Bounds of the model.                                                    *)
(***************************************************************************)
MaxLines == 2        \* longest input stream explored
SmallSize == 700     \* a raster side below the size limit
BigSize == 3000      \* a raster side well above the size limit

(***************************************************************************)
(* Program constants.                                                      *)
(***************************************************************************)
max_size == 1024         \* process_image: max_size = 1024
padding == 4             \* trim_transparent_borders: padding default
alpha_threshold == 8     \* trim_transparent_borders: alpha_threshold default

Max(a, b) == IF a >= b THEN a ELSE b
Min(a, b) == IF a <= b THEN a ELSE b
Abs(a) == IF a >= 0 THEN a ELSE -a

(***************************************************************************)
(* Input lines.  A line is described by what json.loads makes of it       *)
(* (text), and, for a JSON object, by its "command" and "image" members.   *)
(*   text:  "empty"   the line is only a newline (strip() gives "")        *)
(*          "garbage" not JSON                                             *)
(*          "scalar"  JSON, but not an object (number, string, list, null) *)
(*          "object"  a JSON object                                        *)
(*   image: "absent"    no image member                                    *)
(*          "nonstring" a JSON number or null                              *)
(*          "badb64"    a string base64.b64decode rejects                  *)
(*          "notimage"  base64 of bytes that are no image container        *)
(*          "png"       raw base64 of an image                             *)
(*          "datauri"   data:image/png;base64,<base64 of an image>         *)
(***************************************************************************)
RawLine(t) == [text |-> t, command |-> "absent", image |-> "absent"]
ObjLine(c, im) == [text |-> "object", command |-> c, image |-> im]

Images == {"absent", "nonstring", "badb64", "notimage", "png", "datauri"}

Lines ==
    {RawLine(t) : t \in {"empty", "garbage", "scalar"}}
      \cup {ObjLine(c, "absent") :
              c \in {"absent", "bogus", "health", "warmup", "shutdown"}}
      \cup {ObjLine("process", im) : im \in Images}

EOF == RawLine("eof")          \* readline() returned ''
NoLine == RawLine("none")      \* before the first readline()

Streams == UNION {[1..n -> Lines] : n \in 0..MaxLines}

\* variant: the stripped empty line is taken for an empty object
JsonLoadsAcceptsEmpty(l) == l.text = "garbage"

(***************************************************************************)
(* json.loads(line.strip()) raises JSONDecodeError on these lines.         *)
(***************************************************************************)
JsonLoadsRaises(l) == l.text \in {"empty", "garbage"}

(***************************************************************************)
(* data.get("command") raises AttributeError when data is not a dict.      *)
(***************************************************************************)
GetRaises(l) == l.text = "scalar"

(***************************************************************************)
(* Messages written to stdout.                                             *)
(***************************************************************************)
Progress(v) == [type |-> "progress", value |-> v]
Success == [type |-> "result", success |-> TRUE,
            image |-> "data:image/png;base64"]
\* variant: the error response carries an empty image member as well
FailureWithImage(msg) ==
    [type |-> "result", success |-> FALSE, error |-> msg, image |-> ""]
Failure(msg) == [type |-> "result", success |-> FALSE, error |-> msg]
Ready == [success |-> TRUE, status |-> "ready"]
Bye == [success |-> TRUE, status |-> "bye"]
NoResult == [type |-> "none"]

(***************************************************************************)
(* str(e) of the exceptions raised while a line is handled.                *)
(***************************************************************************)
JsonError == "Expecting value: line 1 column 1 (char 0)"
AttrError == "object has no attribute 'get'"
TypeError == "argument of type is not iterable"
B64Error == "Incorrect padding"
OpenError == "cannot identify image file"
\* a library call may raise with a message, or with none (MemoryError())
StageErrors == {"error", ""}

(***************************************************************************)
(* process_image: base64_image.split(',')[1] if ',' in base64_image else   *)
(* base64_image.  A missing image member arrives as "" (data.get default). *)
(***************************************************************************)
StripPrefix(im) ==
    CASE im = "datauri" -> "png"
      [] im = "absent" -> "emptystring"
      [] OTHER -> im

(***************************************************************************)
(* base64.b64decode of the stripped text: the bytes it yields, or "raise". *)
(***************************************************************************)
B64Decode(text) ==
    CASE text = "emptystring" -> "nobytes"
      [] text = "notimage" -> "junkbytes"
      [] text = "png" -> "imagebytes"
      [] OTHER -> "raise"

B64Message(im) == IF im = "nonstring" THEN TypeError ELSE B64Error

(***************************************************************************)
(* Sizes of the images a valid payload may hold: squares, rasters with one *)
(* side far above the limit, and one oblong raster within the limit.       *)
(***************************************************************************)
Sides == {1, SmallSize, max_size, max_size + 1, BigSize}
Sizes ==
    {s \in [w : Sides, h : Sides] :
        \/ s.w = s.h
        \/ BigSize \in {s.w, s.h}
        \/ s = [w |-> SmallSize, h |-> max_size]}

(***************************************************************************)
(* Image.thumbnail((max_size, max_size)) as Pillow computes the new size:  *)
(*   x, y = size; if x >= width and y >= height: return                    *)
(*   aspect = width / height                                               *)
(*   if x / y >= aspect: x = round_aspect(y * aspect, |aspect - n / y|)    *)
(*   else:               y = round_aspect(x / aspect, |aspect - x / n|)    *)
(*   round_aspect(number, key) =                                           *)
(*       max(min(floor(number), ceil(number), key=key), 1)                 *)
(* The keys are compared as exact fractions.                               *)
(***************************************************************************)
CeilDiv(a, b) == (a + b - 1) \div b

RoundAspectX(w, h) ==
    LET f == (max_size * w) \div h
        c == CeilDiv(max_size * w, h)
        key(n) == Abs(max_size * w - n * h)
    IN  Max(IF key(f) <= key(c) THEN f ELSE c, 1)

RoundAspectY(w, h) ==
    LET f == (max_size * h) \div w
        c == CeilDiv(max_size * h, w)
        num(n) == Abs(w * n - max_size * h)
        \* key(f) <= key(c), with key(0) = 0
        fFirst == f = 0 \/ num(f) * c <= num(c) * f
    IN  Max(IF fFirst THEN f ELSE c, 1)

Thumbnail(s) ==
    IF max_size >= s.w /\ max_size >= s.h THEN s
    ELSE IF s.h >= s.w
           THEN [w |-> RoundAspectX(s.w, s.h), h |-> max_size]
           ELSE [w |-> max_size, h |-> RoundAspectY(s.w, s.h)]

\* variant: only the width is compared with max_size
LimitWidth(s) == IF s.w > max_size THEN Thumbnail(s) ELSE s

(***************************************************************************)
(* process_image: if max(input_image.size) > max_size: thumbnail(...)      *)
(***************************************************************************)
LimitSize(s) == IF Max(s.w, s.h) > max_size THEN Thumbnail(s) ELSE s

(***************************************************************************)
(* np.array(image) of an image of size (w, h) has shape (h, w, ...);       *)
(* Image.fromarray(a) has size (a.shape[1], a.shape[0]).                   *)
(***************************************************************************)
NpArray(s) == [rows |-> s.h, cols |-> s.w]
FromArray(a) == [w |-> a.cols, h |-> a.rows]

(***************************************************************************)
(* create_custom_mask: cvtColor, threshold and dilate keep the shape of    *)
(* np.array(image); the mask is Image.fromarray(dilated).                  *)
(***************************************************************************)
CreateCustomMask(s) == FromArray(NpArray(s))

(***************************************************************************)
(* The RGBA raster remove() returns has the size of its input; the         *)
(* bounding box of its pixels with alpha > alpha_threshold is up to the    *)
(* engine.  NoBox stands for "no such pixel".                              *)
(***************************************************************************)
NoBox == [left |-> 0, top |-> 0, right |-> -1, bottom |-> -1]

Inset(s, d) ==
    [left |-> d, top |-> d, right |-> s.w - 1 - d, bottom |-> s.h - 1 - d]

AlphaBoxes(s) ==
    {NoBox} \cup
    {b \in {Inset(s, 0), Inset(s, padding), Inset(s, padding + 1),
            [left |-> 0, top |-> 0,
             right |-> s.w - 2 - padding, bottom |-> s.h - 2 - padding]} :
        /\ 0 <= b.left /\ b.left <= b.right /\ b.right < s.w
        /\ 0 <= b.top /\ b.top <= b.bottom /\ b.bottom < s.h}

(***************************************************************************)
(* trim_transparent_borders on an RGBA raster of size o.w x o.h whose      *)
(* pixels with alpha > alpha_threshold have bounding box o.box.            *)
(***************************************************************************)
TrimTransparentBorders(o) ==
    IF o.box = NoBox THEN o
    ELSE
      LET top == Max(o.box.top - padding, 0)
          bottom == Min(o.box.bottom + padding, o.h - 1)
          left == Max(o.box.left - padding, 0)
          right == Min(o.box.right + padding, o.w - 1)
      IN  IF top = 0 /\ left = 0 /\ bottom = o.h - 1 /\ right = o.w - 1
            THEN o
            ELSE [w |-> (right + 1) - left,
                  h |-> (bottom + 1) - top,
                  box |-> [left |-> o.box.left - left,
                           top |-> o.box.top - top,
                           right |-> o.box.right - left,
                           bottom |-> o.box.bottom - top]]

VARIABLES
    input,     \* the lines on stdin
    nread,     \* number of readline() calls made
    line,      \* main: line
    pc,        \* control position
    out,       \* lines printed so far, each tagged with the readline() call
               \* during whose handling it was printed
    trace,     \* pipeline stages entered so far, tagged the same way
    decoded,   \* size of the image as opened (Image.open(...).size)
    raster,    \* process_image: input_image.size
    mask,      \* process_image: custom_mask.size
    call,      \* arguments of the remove() call of this invocation
    output,    \* process_image: output (size and alpha bounding box)
    result,    \* main: result
    fn,        \* the function applied on its own: "none", "trim" or "mask"
    fn_in,     \* its argument
    fn_out     \* the values computed from it so far, in order

vars == <<input, nread, line, pc, out, trace, decoded, raster, mask, call,
          output, result, fn, fn_in, fn_out>>

fnvars == <<fn, fn_in, fn_out>>
NoRaster == [mode |-> "none", w |-> 0, h |-> 0]

NoSize == [w |-> 0, h |-> 0]
NoCall == [image |-> NoSize, mask |-> NoSize]
NoOutput == [w |-> 0, h |-> 0, box |-> NoBox]

locals == <<decoded, raster, mask, call, output>>

Emit(m) == out' = Append(out, [cmd |-> nread, msg |-> m])
Enter(s) == trace' = Append(trace, [cmd |-> nread, stage |-> s])

Init ==
    /\ input \in Streams
    /\ nread = 0
    /\ line = NoLine
    /\ pc = "read"
    /\ out = <<>>
    /\ trace = <<>>
    /\ decoded = NoSize
    /\ raster = NoSize
    /\ mask = NoSize
    /\ call = NoCall
    /\ output = NoOutput
    /\ result = NoResult
    /\ fn = "none"
    /\ fn_in = NoRaster
    /\ fn_out = <<>>

(***************************************************************************)
(* main: line = sys.stdin.readline(); if not line: break                   *)
(***************************************************************************)
ReadLine ==
    /\ pc = "read"
    /\ nread' = nread + 1
    /\ IF nread + 1 > Len(input)
         THEN line' = EOF /\ pc' = "done"
         ELSE line' = input[nread + 1] /\ pc' = "dispatch"
    /\ UNCHANGED <<input, out, trace, locals, result>>
    /\ UNCHANGED fnvars

(***************************************************************************)
(* main: json.loads(line.strip()) raises; the except branch prints the     *)
(* error response.                                                         *)
(***************************************************************************)
HandleJsonError ==
    /\ pc = "dispatch"
    /\ JsonLoadsRaises(line)
    /\ Emit(Failure(JsonError))
    /\ pc' = "read"
    /\ UNCHANGED <<input, nread, line, trace, locals, result>>
    /\ UNCHANGED fnvars

(***************************************************************************)
(* main: data.get("command") raises on a value that is no dict.            *)
(***************************************************************************)
HandleNotObject ==
    /\ pc = "dispatch"
    /\ ~JsonLoadsRaises(line)
    /\ GetRaises(line)
    /\ Emit(Failure(AttrError))
    /\ pc' = "read"
    /\ UNCHANGED <<input, nread, line, trace, locals, result>>
    /\ UNCHANGED fnvars

IsObject(l) == ~JsonLoadsRaises(l) /\ ~GetRaises(l)

\* variant: warmup runs the engine once before answering
HandleHealthWarming ==
    /\ pc = "dispatch"
    /\ IsObject(line)
    /\ line.command \in {"health", "warmup"}
    /\ Emit(Ready)
    /\ IF line.command = "warmup" THEN Enter("remove") ELSE trace' = trace
    /\ pc' = "read"
    /\ UNCHANGED <<input, nread, line, locals, result>>
    /\ UNCHANGED fnvars

(***************************************************************************)
(* main: elif cmd == "health" or cmd == "warmup"                           *)
(***************************************************************************)
HandleHealth ==
    /\ pc = "dispatch"
    /\ IsObject(line)
    /\ line.command \in {"health", "warmup"}
    /\ Emit(Ready)
    /\ pc' = "read"
    /\ UNCHANGED <<input, nread, line, trace, locals, result>>
    /\ UNCHANGED fnvars

\* variant: the break after the bye response is missing
HandleShutdownNoBreak ==
    /\ pc = "dispatch"
    /\ IsObject(line)
    /\ line.command = "shutdown"
    /\ Emit(Bye)
    /\ pc' = "read"
    /\ UNCHANGED <<input, nread, line, trace, locals, result>>
    /\ UNCHANGED fnvars

(***************************************************************************)
(* main: elif cmd == "shutdown": print bye; break                          *)
(***************************************************************************)
HandleShutdown ==
    /\ pc = "dispatch"
    /\ IsObject(line)
    /\ line.command = "shutdown"
    /\ Emit(Bye)
    /\ pc' = "done"
    /\ UNCHANGED <<input, nread, line, trace, locals, result>>
    /\ UNCHANGED fnvars

\* variant: a line with no matching branch is not consumed and is read again
HandleOtherReread ==
    /\ pc = "dispatch"
    /\ IsObject(line)
    /\ line.command \notin {"process", "health", "warmup", "shutdown"}
    /\ pc' = "read"
    /\ nread' = nread - 1
    /\ UNCHANGED <<input, line, out, trace, locals, result>>
    /\ UNCHANGED fnvars

(***************************************************************************)
(* main: no branch of the if/elif chain matches cmd; nothing is printed.   *)
(***************************************************************************)
HandleOther ==
    /\ pc = "dispatch"
    /\ IsObject(line)
    /\ line.command \notin {"process", "health", "warmup", "shutdown"}
    /\ pc' = "read"
    /\ UNCHANGED <<input, nread, line, out, trace, locals, result>>
    /\ UNCHANGED fnvars

(***************************************************************************)
(* main: if cmd == "process": process_image(data.get("image", ""));        *)
(* process_image prints progress 10 first.                                 *)
(***************************************************************************)
StartProcess ==
    /\ pc = "dispatch"
    /\ IsObject(line)
    /\ line.command = "process"
    /\ Emit(Progress(10))
    /\ pc' = "b64decode"
    /\ UNCHANGED <<input, nread, line, trace, locals, result>>
    /\ UNCHANGED fnvars

\* variant: no except clause in process_image; the exception reaches main,
\* whose handler prints the error, and the loop is left
RaiseAndExit(msg) ==
    /\ result' = NoResult
    /\ pc' = "done"
    /\ decoded' = NoSize
    /\ raster' = NoSize
    /\ mask' = NoSize
    /\ call' = NoCall
    /\ output' = NoOutput
    /\ Emit(Failure(msg))

(***************************************************************************)
(* process_image: except Exception as e: return the error result.  The     *)
(* locals of the invocation are gone with the return.                      *)
(***************************************************************************)
Raise(msg) ==
    /\ result' = Failure(msg)
    /\ pc' = "emit"
    /\ decoded' = NoSize
    /\ raster' = NoSize
    /\ mask' = NoSize
    /\ call' = NoCall
    /\ output' = NoOutput
    /\ out' = out

(***************************************************************************)
(* process_image: image_data = base64.b64decode(...); progress 20          *)
(***************************************************************************)
DecodeBase64 ==
    /\ pc = "b64decode"
    /\ Enter("b64decode")
    /\ IF B64Decode(StripPrefix(line.image)) = "raise"
         THEN Raise(B64Message(line.image))
         ELSE /\ Emit(Progress(20))
              /\ pc' = "open"
              /\ UNCHANGED <<locals, result>>
    /\ UNCHANGED <<input, nread, line>>
    /\ UNCHANGED fnvars

(***************************************************************************)
(* process_image: input_image = Image.open(io.BytesIO(image_data))         *)
(*                                   .convert("RGB")                       *)
(***************************************************************************)
OpenImage ==
    /\ pc = "open"
    /\ Enter("open")
    /\ IF B64Decode(StripPrefix(line.image)) = "imagebytes"
         THEN \/ \E s \in Sizes :
                   /\ decoded' = s
                   /\ raster' = s
                   /\ pc' = "preprocess"
                   /\ UNCHANGED <<out, mask, call, output, result>>
              \/ \E msg \in StageErrors : Raise(msg)
         ELSE Raise(OpenError)
    /\ UNCHANGED <<input, nread, line>>
    /\ UNCHANGED fnvars

(***************************************************************************)
(* process_image: input_image = preprocess_image(input_image); progress 40 *)
(* Every transform of preprocess_image keeps the size.                     *)
(***************************************************************************)
Preprocess ==
    /\ pc = "preprocess"
    /\ Enter("preprocess")
    /\ \/ /\ Emit(Progress(40))
          /\ pc' = "limit"
          /\ UNCHANGED <<locals, result>>
       \/ \E msg \in StageErrors : Raise(msg)
    /\ UNCHANGED <<input, nread, line>>
    /\ UNCHANGED fnvars

(***************************************************************************)
(* process_image: if max(input_image.size) > max_size: thumbnail in place  *)
(***************************************************************************)
Normalize ==
    /\ pc = "limit"
    /\ Enter("limit")
    /\ \/ /\ raster' = LimitSize(raster)
          /\ pc' = "mask"
          /\ UNCHANGED <<out, decoded, mask, call, output, result>>
       \/ /\ Max(raster.w, raster.h) > max_size
          /\ \E msg \in StageErrors : Raise(msg)
    /\ UNCHANGED <<input, nread, line>>
    /\ UNCHANGED fnvars

\* variant: the mask is built from the image as opened, before the size limit
SynthesizeMaskOfDecoded ==
    /\ pc = "mask"
    /\ Enter("mask")
    /\ \/ /\ mask' = CreateCustomMask(decoded)
          /\ Emit(Progress(60))
          /\ pc' = "remove"
          /\ UNCHANGED <<decoded, raster, call, output, result>>
       \/ \E msg \in StageErrors : Raise(msg)
    /\ UNCHANGED <<input, nread, line>>
    /\ UNCHANGED fnvars

\* variant: the checkpoint after mask synthesis reports 30
SynthesizeMaskProgress30 ==
    /\ pc = "mask"
    /\ Enter("mask")
    /\ \/ /\ mask' = [w |-> raster.w, h |-> raster.h]
          /\ Emit(Progress(30))
          /\ pc' = "remove"
          /\ UNCHANGED <<decoded, raster, call, output, result>>
       \/ \E msg \in StageErrors : Raise(msg)
    /\ UNCHANGED <<input, nread, line>>
    /\ UNCHANGED fnvars

(***************************************************************************)
(* process_image: custom_mask = create_custom_mask(input_image);           *)
(* progress 60                                                             *)
(***************************************************************************)
SynthesizeMask ==
    /\ pc = "mask"
    /\ Enter("mask")
    /\ \/ /\ mask' = CreateCustomMask(raster)
          /\ Emit(Progress(60))
          /\ pc' = "remove"
          /\ UNCHANGED <<decoded, raster, call, output, result>>
       \/ \E msg \in StageErrors : Raise(msg)
    /\ UNCHANGED <<input, nread, line>>
    /\ UNCHANGED fnvars

\* variant: a failed engine call is tried a second time
SegmentRetry ==
    /\ pc = "remove"
    /\ Enter("remove")
    /\ \/ /\ call' = [image |-> raster, mask |-> mask]
          /\ \E b \in AlphaBoxes(raster) :
                output' = [w |-> raster.w, h |-> raster.h, box |-> b]
          /\ pc' = "trim"
          /\ UNCHANGED <<out, decoded, raster, mask, result>>
       \/ /\ \A k \in 1..Len(trace) :
                  ~(trace[k].cmd = nread /\ trace[k].stage = "remove")
          /\ UNCHANGED <<pc, out, locals, result>>
       \/ \E msg \in StageErrors : Raise(msg)
    /\ UNCHANGED <<input, nread, line>>
    /\ UNCHANGED fnvars

(***************************************************************************)
(* process_image: output = remove(input_image, ..., mask=custom_mask)      *)
(***************************************************************************)
Segment ==
    /\ pc = "remove"
    /\ Enter("remove")
    /\ \/ /\ call' = [image |-> raster, mask |-> mask]
          /\ \E b \in AlphaBoxes(raster) :
                output' = [w |-> raster.w, h |-> raster.h, box |-> b]
          /\ pc' = "trim"
          /\ UNCHANGED <<out, decoded, raster, mask, result>>
       \/ \E msg \in StageErrors : Raise(msg)
    /\ UNCHANGED <<input, nread, line>>
    /\ UNCHANGED fnvars

(***************************************************************************)
(* process_image: output = trim_transparent_borders(output); progress 95   *)
(***************************************************************************)
Trim ==
    /\ pc = "trim"
    /\ Enter("trim")
    /\ \/ /\ output' = TrimTransparentBorders(output)
          /\ Emit(Progress(95))
          /\ pc' = "encode"
          /\ UNCHANGED <<decoded, raster, mask, call, result>>
       \/ \E msg \in StageErrors : Raise(msg)
    /\ UNCHANGED <<input, nread, line>>
    /\ UNCHANGED fnvars

\* variant: progress 100 is printed before the PNG is written
EncodeProgressFirst ==
    /\ pc = "encode"
    /\ Enter("encode")
    /\ \/ /\ Emit(Progress(100))
          /\ result' = Success
          /\ pc' = "emit"
          /\ decoded' = NoSize
          /\ raster' = NoSize
          /\ mask' = NoSize
          /\ call' = NoCall
          /\ output' = NoOutput
       \/ \E msg \in StageErrors :
             /\ Emit(Progress(100))
             /\ result' = Failure(msg)
             /\ pc' = "emit"
             /\ decoded' = NoSize
             /\ raster' = NoSize
             /\ mask' = NoSize
             /\ call' = NoCall
             /\ output' = NoOutput
    /\ UNCHANGED <<input, nread, line>>
    /\ UNCHANGED fnvars

(***************************************************************************)
(* process_image: save as PNG, base64-encode, progress 100, return the     *)
(* success result.                                                         *)
(***************************************************************************)
Encode ==
    /\ pc = "encode"
    /\ Enter("encode")
    /\ \/ /\ Emit(Progress(100))
          /\ result' = Success
          /\ pc' = "emit"
          /\ decoded' = NoSize
          /\ raster' = NoSize
          /\ mask' = NoSize
          /\ call' = NoCall
          /\ output' = NoOutput
       \/ \E msg \in StageErrors : Raise(msg)
    /\ UNCHANGED <<input, nread, line>>
    /\ UNCHANGED fnvars

\* variant: a failed invocation is dropped without a response
EmitResultOnSuccess ==
    /\ pc = "emit"
    /\ IF result.success THEN Emit(result) ELSE out' = out
    /\ result' = NoResult
    /\ pc' = "read"
    /\ UNCHANGED <<input, nread, line, trace, locals>>
    /\ UNCHANGED fnvars

(***************************************************************************)
(* main: print(json.dumps(result), flush=True)                             *)
(***************************************************************************)
EmitResult ==
    /\ pc = "emit"
    /\ Emit(result)
    /\ result' = NoResult
    /\ pc' = "read"
    /\ UNCHANGED <<input, nread, line, trace, locals>>
    /\ UNCHANGED fnvars

Next ==
    \/ ReadLine
    \/ HandleJsonError
    \/ HandleNotObject
    \/ HandleHealth
    \/ HandleShutdown
    \/ HandleOther
    \/ StartProcess
    \/ DecodeBase64
    \/ OpenImage
    \/ Preprocess
    \/ Normalize
    \/ SynthesizeMask
    \/ Segment
    \/ Trim
    \/ Encode
    \/ EmitResult

Spec == Init /\ [][Next]_vars

(***************************************************************************)
(* The loop is sequential code: as long as it has a next statement it      *)
(* executes it, every library call returning or raising.                   *)
(***************************************************************************)
FairSpec == Spec /\ WF_vars(Next)

(***************************************************************************)
(* Rasters with their pixels, for trim_transparent_borders and             *)
(* create_custom_mask taken on their own.  A raster has a mode, a size and *)
(* a pixel at every position <<x, y>>; an RGBA pixel has a colour rgb and  *)
(* an alpha a, an RGB pixel has components r, g, b, an L pixel a value v.  *)
(***************************************************************************)
MaxSide == 11        \* largest side of a raster handed to the trimmer
MaxMaskW == 2        \* largest width of a raster handed to the mask maker

Positions(w, h) == (0..(w - 1)) \X (0..(h - 1))

SetMin(S) == CHOOSE x \in S : \A y \in S : x <= y
SetMax(S) == CHOOSE x \in S : \A y \in S : x >= y

\* arr.shape[-1] of np.array(image)
Bands(mode) ==
    CASE mode = "RGBA" -> 4
      [] mode = "RGB" -> 3
      [] OTHER -> 1

(***************************************************************************)
(* image.convert('RGBA') of an image without alpha: every pixel opaque.    *)
(***************************************************************************)
ConvertRGBA(image) ==
    [mode |-> "RGBA", w |-> image.w, h |-> image.h,
     px |-> [p \in DOMAIN image.px |->
               [rgb |-> image.px[p].rgb, a |-> 255]]]

(***************************************************************************)
(* image.crop((left, upper, right, lower)); right and lower are exclusive. *)
(***************************************************************************)
Crop(image, left, upper, right, lower) ==
    [mode |-> image.mode, w |-> right - left, h |-> lower - upper,
     px |-> [p \in Positions(right - left, lower - upper) |->
               image.px[<<p[1] + left, p[2] + upper>>]]]

\* variant: the inclusive right/bottom are passed to crop as they are
trim_exclusive_bounds(image) ==
    LET img == IF image.mode # "RGBA" THEN ConvertRGBA(image) ELSE image
        above == {p \in DOMAIN img.px : img.px[p].a > alpha_threshold}
        ys == {p[2] : p \in above}
        xs == {p[1] : p \in above}
        top == Max(SetMin(ys) - padding, 0)
        bottom == Min(SetMax(ys) + padding, img.h - 1)
        left == Max(SetMin(xs) - padding, 0)
        right == Min(SetMax(xs) + padding, img.w - 1)
    IN  IF Bands(img.mode) < 4 THEN img
        ELSE IF above = {} THEN img
        ELSE IF top = 0 /\ left = 0 /\ bottom = img.h - 1
                  /\ right = img.w - 1
          THEN img
          ELSE Crop(img, left, top, right, bottom)

(***************************************************************************)
(* trim_transparent_borders(image, padding=4, alpha_threshold=8)           *)
(***************************************************************************)
trim_transparent_borders(image) ==
    LET img == IF image.mode # "RGBA" THEN ConvertRGBA(image) ELSE image
        above == {p \in DOMAIN img.px : img.px[p].a > alpha_threshold}
        ys == {p[2] : p \in above}
        xs == {p[1] : p \in above}
        top == Max(SetMin(ys) - padding, 0)
        bottom == Min(SetMax(ys) + padding, img.h - 1)
        left == Max(SetMin(xs) - padding, 0)
        right == Min(SetMax(xs) + padding, img.w - 1)
    IN  IF Bands(img.mode) < 4 THEN img
        ELSE IF above = {} THEN img
        ELSE IF top = 0 /\ left = 0 /\ bottom = img.h - 1
                  /\ right = img.w - 1
          THEN img
          ELSE Crop(img, left, top, right + 1, bottom + 1)

(***************************************************************************)
(* The rasters the trimmer is applied to: RGB rasters, and RGBA rasters    *)
(* with at most two pixels above the alpha threshold, each at, next to or  *)
(* out of the padding's reach from an edge; the colour of a pixel names    *)
(* its position.                                                           *)
(***************************************************************************)
TrimSides == {1, padding + 2, MaxSide}

AlphaPairs ==
    {[bg |-> 0, hi |-> 255],
     [bg |-> alpha_threshold, hi |-> alpha_threshold + 1]}

RgbRaster(w, h) ==
    [mode |-> "RGB", w |-> w, h |-> h,
     px |-> [p \in Positions(w, h) |-> [rgb |-> p[1] + w * p[2]]]]

RgbaRaster(w, h, S, ap) ==
    [mode |-> "RGBA", w |-> w, h |-> h,
     px |-> [p \in Positions(w, h) |->
               [rgb |-> p[1] + w * p[2],
                a |-> IF p \in S THEN ap.hi ELSE ap.bg]]]

\* the coordinates at, next to and away from the reach of the padding
Coords(n) ==
    {0, padding, padding + 1, n - 2 - padding, n - 1 - padding, n - 1}
       \cap (0..(n - 1))

Marks(w, h) == {{}} \cup {{p, q} : p, q \in Coords(w) \X Coords(h)}

TrimInputs ==
    UNION {{RgbRaster(s[1], s[2])} \cup
           {RgbaRaster(s[1], s[2], m[1], m[2]) :
               m \in Marks(s[1], s[2]) \X AlphaPairs} :
           s \in TrimSides \X TrimSides}

\* the protocol loop is not running while a function is studied on its own
Idle ==
    /\ input = <<>>
    /\ nread = 0
    /\ line = NoLine
    /\ pc = "idle"
    /\ out = <<>>
    /\ trace = <<>>
    /\ decoded = NoSize
    /\ raster = NoSize
    /\ mask = NoSize
    /\ call = NoCall
    /\ output = NoOutput
    /\ result = NoResult

protocol == <<input, nread, line, pc, out, trace, decoded, raster, mask,
              call, output, result>>

TrimInit ==
    /\ Idle
    /\ fn = "trim"
    /\ fn_in \in TrimInputs
    /\ fn_out = <<>>

(***************************************************************************)
(* trim_transparent_borders applied to the raster, then to its own result. *)
(***************************************************************************)
ApplyTrim ==
    /\ fn = "trim"
    /\ Len(fn_out) < 2
    /\ fn_out' = Append(fn_out,
           trim_transparent_borders(
               IF fn_out = <<>> THEN fn_in ELSE fn_out[Len(fn_out)]))
    /\ UNCHANGED <<fn, fn_in, protocol>>

TrimSpec == TrimInit /\ [][ApplyTrim]_vars

(***************************************************************************)
(* create_custom_mask with its pixels.                                     *)
(***************************************************************************)
thresh == 200        \* cv2.threshold(gray, 200, 255, ...)
maxval == 255

(***************************************************************************)
(* cv2.cvtColor(..., cv2.COLOR_RGB2GRAY) on 8-bit pixels: the fixed-point  *)
(* form of 0.299 R + 0.587 G + 0.114 B, rounded.                           *)
(***************************************************************************)
RGB2GRAY(image) ==
    [mode |-> "L", w |-> image.w, h |-> image.h,
     px |-> [p \in DOMAIN image.px |->
               [v |-> (image.px[p].r * 9798 + image.px[p].g * 19235
                         + image.px[p].b * 3735 + 16384) \div 32768]]]

\* variant: THRESH_BINARY in place of THRESH_BINARY_INV
ThresholdBinary(gray) ==
    [mode |-> "L", w |-> gray.w, h |-> gray.h,
     px |-> [p \in DOMAIN gray.px |->
               [v |-> IF gray.px[p].v > thresh THEN maxval ELSE 0]]]

(***************************************************************************)
(* cv2.threshold(gray, 200, 255, cv2.THRESH_BINARY_INV):                   *)
(* dst = 0 if src > thresh else maxval.                                    *)
(***************************************************************************)
ThresholdBinaryInv(gray) ==
    [mode |-> "L", w |-> gray.w, h |-> gray.h,
     px |-> [p \in DOMAIN gray.px |->
               [v |-> IF gray.px[p].v > thresh THEN 0 ELSE maxval]]]

(***************************************************************************)
(* cv2.dilate(thresh, np.ones((3, 3)), iterations=1): the maximum over the *)
(* 3x3 neighbourhood, positions outside the raster not counting.           *)
(***************************************************************************)
Dilate3x3(img) ==
    [mode |-> "L", w |-> img.w, h |-> img.h,
     px |-> [p \in DOMAIN img.px |->
               [v |-> SetMax({img.px[q].v :
                        q \in {n \in DOMAIN img.px :
                                 /\ Abs(n[1] - p[1]) <= 1
                                 /\ Abs(n[2] - p[2]) <= 1}})]]]

(***************************************************************************)
(* The RGB rasters the mask maker is applied to: pixels with luminance     *)
(* just below, at and just above the cutoff, white, and one colour.        *)
(***************************************************************************)
GrayPixel(v) == [r |-> v, g |-> v, b |-> v]

MaskPixels ==
    {GrayPixel(thresh - 1), GrayPixel(thresh), GrayPixel(thresh + 1),
     GrayPixel(255), [r |-> 255, g |-> 255, b |-> 0]}

MaskRows == {1, 2}

MaskInputs ==
    UNION {{[mode |-> "RGB", w |-> s[1], h |-> s[2], px |-> f] :
               f \in [Positions(s[1], s[2]) -> MaskPixels]} :
           s \in (1..MaxMaskW) \X MaskRows}

MaskInit ==
    /\ Idle
    /\ fn = "mask"
    /\ fn_in \in MaskInputs
    /\ fn_out = <<>>

\* create_custom_mask: gray = cv2.cvtColor(open_cv_image, COLOR_RGB2GRAY)
ToGray ==
    /\ fn = "mask"
    /\ Len(fn_out) = 0
    /\ fn_out' = <<RGB2GRAY(fn_in)>>
    /\ UNCHANGED <<fn, fn_in, protocol>>

\* create_custom_mask: _, thresh = cv2.threshold(gray, 200, 255, ...)
Threshold ==
    /\ fn = "mask"
    /\ Len(fn_out) = 1
    /\ fn_out' = Append(fn_out, ThresholdBinaryInv(fn_out[1]))
    /\ UNCHANGED <<fn, fn_in, protocol>>

\* create_custom_mask: dilated = cv2.dilate(thresh, kernel, iterations=1)
Dilate ==
    /\ fn = "mask"
    /\ Len(fn_out) = 2
    /\ fn_out' = Append(fn_out, Dilate3x3(fn_out[2]))
    /\ UNCHANGED <<fn, fn_in, protocol>>

MaskNext == ToGray \/ Threshold \/ Dilate

MaskSpec == MaskInit /\ [][MaskNext]_vars

(***************************************************************************)
(* Reading the output: what was printed while the line of the i-th         *)
(* readline() call was handled.                                            *)
(***************************************************************************)
OutOf(i) == SelectSeq(out, LAMBDA e : e.cmd = i)
StagesOf(i) == SelectSeq(trace, LAMBDA e : e.cmd = i)

IsResult(m) == "type" \in DOMAIN m /\ m.type = "result"
IsProgress(m) == "type" \in DOMAIN m /\ m.type = "progress"
IsError(m) ==
    /\ IsResult(m)
    /\ m.success = FALSE
    /\ "error" \in DOMAIN m

Results(i) == SelectSeq(OutOf(i), LAMBDA e : IsResult(e.msg))
Progresses(i) == SelectSeq(OutOf(i), LAMBDA e : IsProgress(e.msg))

\* the lines readline() has returned so far
ReadLines == {i \in 1..Len(input) : i <= nread}
\* ... and whose handling is over
Handled(i) == i < nread \/ (i = nread /\ pc \in {"read", "done"})

\* the line is a JSON object whose command member is c
IsCommand(l, c) == l.text = "object" /\ l.command = c
\* the line is no JSON, or JSON that is no object
Malformed(l) == l.text \in {"empty", "garbage", "scalar"}

\* C1: a process command read by the loop never has two result lines, a
\* result line is the last line printed for it, and once its handling is
\* over it has exactly one result line, whatever its image member is and
\* whichever stage failed.
C1_OneResultPerProcess ==
    \A i \in ReadLines :
        IsCommand(input[i], "process") =>
            LET o == OutOf(i)
                n == Len(SelectSeq(o, LAMBDA e : IsResult(e.msg)))
            IN  /\ n <= 1
                /\ n = 1 => IsResult(o[Len(o)].msg)
                /\ Handled(i) => n = 1

\* a stream of two process commands, the first answered with a failure and
\* the second with a success, both handled to the end
C1_Witness ==
    /\ Len(input) = 2
    /\ nread = 2
    /\ pc = "read"
    /\ IsCommand(input[1], "process")
    /\ IsCommand(input[2], "process")
    /\ Len(Results(1)) = 1
    /\ Results(1)[1].msg.success = FALSE
    /\ Len(Results(2)) = 1
    /\ Results(2)[1].msg.success = TRUE

\* C2: a JSON object whose command is absent or is none of process, health,
\* warmup, shutdown is answered with one error-shaped response.
C2_UnknownCommandAnswered ==
    \A i \in ReadLines :
        (/\ input[i].text = "object"
         /\ input[i].command \notin {"process", "health", "warmup", "shutdown"}
         /\ Handled(i))
          => /\ Len(OutOf(i)) = 1
             /\ IsError(OutOf(i)[1].msg)

\* C3: a malformed line (not JSON, empty, or JSON that is no object) is
\* answered with exactly one error result and no progress event, and the
\* loop goes back to reading.
C3_MalformedLineAnswered ==
    \A i \in ReadLines :
        Malformed(input[i]) =>
            /\ Len(OutOf(i)) <= 1
            /\ Len(Progresses(i)) = 0
            /\ Handled(i) =>
                 /\ Len(OutOf(i)) = 1
                 /\ IsError(OutOf(i)[1].msg)
                 /\ DOMAIN OutOf(i)[1].msg = {"type", "success", "error"}
            /\ (i = nread /\ pc # "dispatch") => pc = "read"

\* an empty line and a non-object line, both answered, the loop reading on
C3_Witness ==
    /\ Len(input) = 2
    /\ nread = 2
    /\ pc = "read"
    /\ input[1].text = "empty"
    /\ input[2].text = "scalar"
    /\ Len(out) = 2
    /\ IsError(out[1].msg)
    /\ IsError(out[2].msg)

\* a line whose handling failed: an error result was printed for it
Failed(i) == LET o == OutOf(i) IN \E k \in 1..Len(o) : IsError(o[k].msg)

\* the response to a handled health, warmup or process line is the regular one
AnsweredNormally(i) ==
    /\ input[i].command \in {"health", "warmup"} => OutOf(i) = <<[cmd |-> i, msg |-> Ready]>>
    /\ input[i].command = "process" =>
          /\ Len(Results(i)) = 1
          /\ IsResult(OutOf(i)[Len(OutOf(i))].msg)
          /\ Len(Progresses(i)) >= 1

\* C4: a failure while handling a line never ends the worker.  The loop is
\* left only after a shutdown line or at end-of-stream; after a line whose
\* handling failed the loop is reading again; and the line after a failed
\* one is read and answered as usual.
C4_FailureNeverEndsWorker ==
    /\ pc = "done" => (line = EOF \/ IsCommand(line, "shutdown"))
    /\ (pc = "done" /\ line = EOF) => nread = Len(input) + 1
    /\ \A i \in ReadLines :
          Failed(i) =>
             /\ (i = nread /\ Handled(i)) => pc = "read"
             /\ (pc = "done" /\ i < Len(input)) => nread > i
             /\ (i + 1 \in ReadLines /\ Handled(i + 1) /\ input[i + 1].text = "object")
                   => AnsweredNormally(i + 1)

\* a process command that failed in the engine, followed by a health line
\* that was answered
C4_Witness ==
    /\ Len(input) = 2
    /\ IsCommand(input[1], "process")
    /\ IsCommand(input[2], "health")
    /\ Failed(1)
    /\ Len(Progresses(1)) = 4
    /\ nread = 2
    /\ pc = "read"
    /\ out[Len(out)] = [cmd |-> 2, msg |-> Ready]

NonDecreasing(seq) ==
    \A k \in 1..(Len(seq) - 1) : seq[k].msg.value <= seq[k + 1].msg.value

\* C5: within one process invocation every progress value is an integer in
\* 0..100 and the values are printed in non-decreasing order, on the success
\* path and on every failure path.
C5_ProgressMonotone ==
    \A i \in ReadLines :
        LET pr == Progresses(i)
        IN  /\ \A k \in 1..Len(pr) : pr[k].msg.value \in 0..100
            /\ NonDecreasing(pr)

\* a successful invocation with all its checkpoints, after a failed one
\* that got as far as the trim
C5_Witness ==
    /\ Len(input) = 2
    /\ Failed(1)
    /\ Len(Progresses(1)) = 4
    /\ Len(Progresses(2)) = 6
    /\ Len(Results(2)) = 1
    /\ Results(2)[1].msg.success = TRUE

\* C6: a shutdown line is answered with exactly one line, the bye response,
\* and ends the loop: no further line is read and nothing is printed after
\* it, also when more lines follow in the stream.
C6_ShutdownTerminates ==
    \A i \in ReadLines :
        (IsCommand(input[i], "shutdown") /\ (i < nread \/ pc # "dispatch")) =>
            /\ pc = "done"
            /\ nread = i
            /\ line = input[i]
            /\ OutOf(i) = <<[cmd |-> i, msg |-> Bye]>>
            /\ out[Len(out)] = [cmd |-> i, msg |-> Bye]

\* shutdown as the first of two lines: the loop is over, the second line
\* was never read
C6_Witness ==
    /\ Len(input) = 2
    /\ IsCommand(input[1], "shutdown")
    /\ IsCommand(input[2], "process")
    /\ pc = "done"
    /\ nread = 1
    /\ out = <<[cmd |-> 1, msg |-> Bye]>>

\* C7: a health or warmup line is answered with exactly one line, the ready
\* response; no progress event is printed and no pipeline stage is run for
\* it; the loop goes back to reading.
C7_HealthOnlyAnswers ==
    \A i \in ReadLines :
        input[i].command \in {"health", "warmup"} =>
            /\ Len(StagesOf(i)) = 0
            /\ Len(Progresses(i)) = 0
            /\ Len(OutOf(i)) <= 1
            /\ Handled(i) => OutOf(i) = <<[cmd |-> i, msg |-> Ready]>>
            /\ (i = nread /\ pc # "dispatch") => pc = "read"

\* a warmup line answered after a failed process command
C7_Witness ==
    /\ Len(input) = 2
    /\ IsCommand(input[1], "process")
    /\ Failed(1)
    /\ IsCommand(input[2], "warmup")
    /\ nread = 2
    /\ pc = "read"
    /\ OutOf(2) = <<[cmd |-> 2, msg |-> Ready]>>

\* C8: every printed result line has an image member exactly when success
\* is true and an error member exactly when success is false.
C8_ResultShape ==
    \A k \in 1..Len(out) :
        IsResult(out[k].msg) =>
            /\ ("image" \in DOMAIN out[k].msg) <=> (out[k].msg.success = TRUE)
            /\ ("error" \in DOMAIN out[k].msg) <=> (out[k].msg.success = FALSE)

\* an error result of the loop's own handler and a success result of the
\* process handler in one output
C8_Witness ==
    /\ Len(input) = 2
    /\ input[1].text = "garbage"
    /\ IsCommand(input[2], "process")
    /\ Len(Results(1)) = 1
    /\ Results(1)[1].msg.success = FALSE
    /\ Len(Results(2)) = 1
    /\ Results(2)[1].msg.success = TRUE

SizeLimited(from, to) ==
    /\ to.w <= from.w
    /\ to.h <= from.h
    /\ Max(to.w, to.h) <= max_size
    /\ Max(from.w, from.h) <= max_size => to = from

\* C9: after the size limit the raster is no wider and no higher than the
\* image as opened, its larger side is at most 1024, and an image within
\* the limit keeps its size; this is the raster handed to the engine.
C9_SizeNormalized ==
    /\ pc \in {"mask", "remove", "trim", "encode"} => SizeLimited(decoded, raster)
    /\ call # NoCall => SizeLimited(decoded, call.image)

\* the engine was called for an image opened at BigSize x (max_size + 1)
C9_Witness ==
    /\ pc = "trim"
    /\ decoded = [w |-> max_size + 1, h |-> BigSize]
    /\ call.image.h = max_size
    /\ call.image.w < max_size

\* C10: whenever the engine is invoked the mask and the raster passed to it
\* have the same width and height.
C10_MaskMatchesRaster ==
    /\ pc = "remove" => (mask.w = raster.w /\ mask.h = raster.h)
    /\ call # NoCall => (call.mask.w = call.image.w /\ call.mask.h = call.image.h)

\* the engine was called for an image that the size limit had shrunk
C10_Witness ==
    /\ call # NoCall
    /\ decoded.w > max_size
    /\ call.image # decoded
    /\ call.mask = call.image

\* C14: every error-shaped response, of a failed process command or of the
\* loop's exception handler, carries a non-empty error message.
C14_ErrorMessageNonEmpty ==
    \A k \in 1..Len(out) :
        IsError(out[k].msg) => out[k].msg.error # ""

\* the stages of process_image in program order, and the progress value
\* printed when each one has succeeded (0: none)
StageOrder ==
    <<"b64decode", "open", "preprocess", "limit", "mask", "remove", "trim",
      "encode">>
CheckpointAfter == <<20, 0, 40, 0, 60, 0, 95, 100>>

StageNames(i) ==
    LET st == StagesOf(i) IN [k \in 1..Len(st) |-> st[k].stage]
ProgressValues(i) ==
    LET pr == Progresses(i) IN [k \in 1..Len(pr) |-> pr[k].msg.value]
IsPrefix(a, b) == Len(a) <= Len(b) /\ \A k \in 1..Len(a) : a[k] = b[k]
Count(seq, x) == Cardinality({k \in 1..Len(seq) : seq[k] = x})

\* the checkpoints printed when the first n stages have succeeded
CheckpointsOf(n) ==
    <<10>> \o SelectSeq(SubSeq(CheckpointAfter, 1, n), LAMBDA v : v # 0)

\* C15: the stages of one process command run in the fixed order, each at
\* most once; the stage that fails is the last one that runs; the engine is
\* invoked at most once per process command, and never for another command,
\* a malformed line or a line whose decode failed.
C15_StageOrder ==
    \A i \in ReadLines :
        LET names == StageNames(i)
            engine == Count(names, "remove")
        IN  /\ IsPrefix(names, StageOrder)
            /\ engine <= 1
            /\ ~IsCommand(input[i], "process") => names = <<>>
            /\ (IsCommand(input[i], "process")
                  /\ input[i].image \notin {"png", "datauri"})
                 => engine = 0
            /\ (IsCommand(input[i], "process") /\ Handled(i) /\ Failed(i)) =>
                 /\ Len(names) >= 1
                 /\ ProgressValues(i) = CheckpointsOf(Len(names) - 1)

\* a process command that failed in the trim, after one engine call, then
\* a health line
C15_Witness ==
    /\ Len(input) = 2
    /\ IsCommand(input[1], "process")
    /\ IsCommand(input[2], "health")
    /\ nread = 2
    /\ pc = "read"
    /\ Failed(1)
    /\ StageNames(1) = SubSeq(StageOrder, 1, 7)
    /\ StageNames(2) = <<>>

Checkpoints == <<10, 20, 40, 60, 95, 100>>

\* C18: the progress values of one process command form a prefix of
\* 10, 20, 40, 60, 95, 100; a success result comes after the complete
\* sequence; a failure result comes after progress 10 and never after
\* progress 100.
C18_CheckpointPrefix ==
    \A i \in ReadLines :
        IsCommand(input[i], "process") =>
            LET values == ProgressValues(i)
                res == Results(i)
            IN  /\ IsPrefix(values, Checkpoints)
                /\ \A k \in 1..Len(res) :
                      IF res[k].msg.success
                        THEN values = Checkpoints
                        ELSE /\ Count(values, 100) = 0
                             /\ Count(values, 10) = 1

\* one command answered with a failure after progress 95 (the encode
\* failed), one answered with a success
C18_Witness ==
    /\ Len(input) = 2
    /\ nread = 2
    /\ pc = "read"
    /\ Len(Results(1)) = 1
    /\ Results(1)[1].msg.success = FALSE
    /\ ProgressValues(1) = <<10, 20, 40, 60, 95>>
    /\ Len(Results(2)) = 1
    /\ Results(2)[1].msg.success = TRUE
    /\ ProgressValues(2) = Checkpoints

\* the readline() call at which the loop stops: the first shutdown line, or
\* the call that meets end-of-stream
FirstStop ==
    IF \E i \in 1..Len(input) : IsCommand(input[i], "shutdown")
      THEN CHOOSE i \in 1..Len(input) :
             /\ IsCommand(input[i], "shutdown")
             /\ \A j \in 1..(i - 1) : ~IsCommand(input[j], "shutdown")
      ELSE Len(input) + 1

\* C17: the loop terminates on every finite input stream; it stops at the
\* first shutdown line or at end-of-stream, whichever comes first, and at
\* end-of-stream it prints no line of its own.
C17_Terminates ==
    /\ <>(pc = "done")
    /\ [](pc = "done" =>
            /\ nread = FirstStop
            /\ (line = EOF) <=> (nread = Len(input) + 1)
            /\ \A k \in 1..Len(out) : out[k].cmd \in 1..Len(input))

\* the loop has stopped at end-of-stream after answering two lines
C17_Witness ==
    /\ pc = "done"
    /\ line = EOF
    /\ Len(input) = 2
    /\ nread = 3
    /\ IsCommand(input[1], "process")
    /\ IsCommand(input[2], "bogus")
    /\ Len(out) >= 2
    /\ out[Len(out)].cmd = 1

\* C11: trimming the result of a trim gives that result again, in mode,
\* size and pixels.
C11_TrimIdempotent ==
    (fn = "trim" /\ Len(fn_out) = 2) => fn_out[2] = fn_out[1]

\* the first trim cropped all four sides of a raster whose marked pixels
\* lie away from every edge, and the second trim was applied
C11_Witness ==
    /\ fn = "trim"
    /\ Len(fn_out) = 2
    /\ fn_in.mode = "RGBA"
    /\ fn_in.w = MaxSide
    /\ fn_out[1].w = 2 * padding + 1
    /\ fn_out[1].h = 2 * padding + 1

HasAlpha(image) == image.mode = "RGBA"
AboveThreshold(image) ==
    {p \in DOMAIN image.px : image.px[p].a > alpha_threshold}

\* C12: a raster without alpha channel, and a raster none of whose pixels
\* has alpha above the threshold, is returned unchanged: same mode, same
\* size, same pixels.
C12_TrimUnchanged ==
    (fn = "trim" /\ Len(fn_out) >= 1) =>
        ((~HasAlpha(fn_in) \/ AboveThreshold(fn_in) = {}) => fn_out[1] = fn_in)

\* C16: when the trimmer crops, the result is the part of the raster inside
\* the bounding box of the pixels with alpha > 8, widened by 4 on each side
\* and cut at the raster's edges: every pixel with alpha > 8 is kept, no
\* side grows, every row and column left out has only alpha <= 8; when that
\* box is the whole canvas the size is unchanged.
C16_CropBox ==
    (fn = "trim" /\ Len(fn_out) >= 1 /\ HasAlpha(fn_in)
        /\ AboveThreshold(fn_in) # {}) =>
      LET R == fn_out[1]
          A == AboveThreshold(fn_in)
          x0 == Max(SetMin({p[1] : p \in A}) - padding, 0)
          x1 == Min(SetMax({p[1] : p \in A}) + padding, fn_in.w - 1)
          y0 == Max(SetMin({p[2] : p \in A}) - padding, 0)
          y1 == Min(SetMax({p[2] : p \in A}) + padding, fn_in.h - 1)
      IN  /\ R.mode = "RGBA"
          /\ R.w = x1 - x0 + 1
          /\ R.h = y1 - y0 + 1
          /\ R.w <= fn_in.w
          /\ R.h <= fn_in.h
          /\ DOMAIN R.px = Positions(R.w, R.h)
          /\ \A p \in DOMAIN R.px : R.px[p] = fn_in.px[<<p[1] + x0, p[2] + y0>>]
          /\ Cardinality(AboveThreshold(R)) = Cardinality(A)
          /\ \A p \in DOMAIN fn_in.px :
                (p[1] < x0 \/ p[1] > x1 \/ p[2] < y0 \/ p[2] > y1)
                   => fn_in.px[p].a <= alpha_threshold
          /\ (x0 = 0 /\ y0 = 0 /\ x1 = fn_in.w - 1 /\ y1 = fn_in.h - 1)
                => (R.w = fn_in.w /\ R.h = fn_in.h)

\* a crop that keeps a marked pixel on the right edge and drops columns on
\* the left
C16_Witness ==
    /\ fn = "trim"
    /\ Len(fn_out) >= 1
    /\ fn_in.mode = "RGBA"
    /\ fn_in.w = MaxSide
    /\ fn_in.px[<<MaxSide - 1, 0>>].a = alpha_threshold + 1
    /\ fn_out[1].w < fn_in.w
    /\ fn_out[1].h < fn_in.h

AllWhite(image) == \A p \in DOMAIN image.px : image.px[p] = GrayPixel(255)

\* C13 as claimed: the threshold marks a pixel 255 exactly when its
\* luminance is strictly below 200 and 0 for every other luminance, 200
\* included; an all-white raster gives an all-zero mask before dilation.
C13_ForegroundBelowCutoff ==
    (fn = "mask" /\ Len(fn_out) >= 2) =>
        /\ \A p \in DOMAIN fn_out[2].px :
              fn_out[2].px[p].v = IF fn_out[1].px[p].v < 200 THEN 255 ELSE 0
        /\ AllWhite(fn_in) => \A p \in DOMAIN fn_out[2].px : fn_out[2].px[p].v = 0

\* C13 as amended: the threshold marks a pixel 255 exactly when its
\* luminance is at most 200 and 0 when it is above 200; an all-white raster
\* gives an all-zero mask before dilation.
C13_ForegroundUpToCutoff ==
    (fn = "mask" /\ Len(fn_out) >= 2) =>
        /\ DOMAIN fn_out[2].px = DOMAIN fn_in.px
        /\ \A p \in DOMAIN fn_out[2].px :
              fn_out[2].px[p].v = IF fn_out[1].px[p].v <= 200 THEN 255 ELSE 0
        /\ AllWhite(fn_in) => \A p \in DOMAIN fn_out[2].px : fn_out[2].px[p].v = 0

\* a raster with a pixel of luminance exactly 200, marked 255, next to a
\* white pixel, marked 0
C13_Witness ==
    /\ fn = "mask"
    /\ Len(fn_out) >= 2
    /\ fn_in.w = 2
    /\ fn_in.px[<<0, 0>>] = GrayPixel(200)
    /\ fn_in.px[<<1, 0>>] = GrayPixel(255)
    /\ fn_out[2].px[<<0, 0>>].v = 255
    /\ fn_out[2].px[<<1, 0>>].v = 0
====
